---- MODULE Spec2Model ----
(***************************************************************************)
(* A model of keg's NGDP client (src/main.py): the FlatINI config parser,  *)
(* the on-disk NGDPCache, and NGDPConnection with its memoized manifest    *)
(* tables, its memoized CDN host, the hash-addressed get_or_cache path and *)
(* the lazy versions generator.                                            *)
(*                                                                         *)
(* Python strings are sequences of tokens (a token is a character or an    *)
(* unsplittable run of characters), so that split, partition, strip and    *)
(* slicing are computed and not assumed.  Python values that can be of     *)
(* more than one type at one place (a manifest cell that is either a str   *)
(* or a FlatINI after versions has run) carry their type in a field t.     *)
(***************************************************************************)
EXTENDS Integers, Sequences, FiniteSets, TLC

VARIABLES
  cache,           \* the files of the cache directory: key -> name -> bytes
  obj_cache,       \* per client, self._obj_cache: path -> parsed manifest table
  cdn_host,        \* per client, self._cdn_host (<<>> is None)
  gen,             \* per client, the generator its last conn.versions returned
  last,            \* the last call: client, operation, argument, log, result
  conn_region,     \* per client, self.region
  cdns_requested,  \* per client, whether it has ever requested /cdns
  ini,             \* a FlatINI under test: its text, its entries, the last call on it
  tab,             \* a manifest under test: its lines and what _parse_csv made of them
  proc             \* per process on the cache directory: the NGDPCache call it is in

vars == <<cache, obj_cache, cdn_host, gen, last, conn_region, cdns_requested,
          ini, tab, proc>>

(***************************************************************************)
(* Python string primitives                                                *)
(***************************************************************************)
Min(a, b) == IF a < b THEN a ELSE b

\* s[a:b]
Slice(s, a, b) == SubSeq(s, a + 1, Min(b, Len(s)))

\* index of the first occurrence of token sep in s, 0 when there is none
IndexOf(s, sep) ==
  IF \E i \in 1..Len(s) : s[i] = sep
  THEN CHOOSE i \in 1..Len(s) : s[i] = sep /\ \A j \in 1..(i - 1) : s[j] # sep
  ELSE 0

RECURSIVE Split(_, _)
\* s.split(sep)
Split(s, sep) ==
  LET i == IndexOf(s, sep)
  IN IF i = 0 THEN <<s>>
     ELSE <<SubSeq(s, 1, i - 1)>> \o Split(SubSeq(s, i + 1, Len(s)), sep)

\* s.partition(sep)
Partition(s, sep) ==
  LET i == IndexOf(s, sep)
  IN IF i = 0 THEN <<s, <<>>, <<>>>>
     ELSE <<SubSeq(s, 1, i - 1), <<sep>>, SubSeq(s, i + 1, Len(s))>>

\* the characters str.strip() removes
Whitespace == {" ", "\n"}

RECURSIVE LStrip(_)
LStrip(s) == IF s # <<>> /\ Head(s) \in Whitespace THEN LStrip(Tail(s)) ELSE s

RECURSIVE RStrip(_)
RStrip(s) ==
  IF s # <<>> /\ s[Len(s)] \in Whitespace THEN RStrip(SubSeq(s, 1, Len(s) - 1)) ELSE s

\* s.strip()
Strip(s) == RStrip(LStrip(s))

RECURSIVE Join(_, _)
\* sep.join(parts)
Join(parts, sep) ==
  IF parts = <<>> THEN <<>>
  ELSE IF Len(parts) = 1 THEN parts[1]
  ELSE parts[1] \o <<sep>> \o Join(Tail(parts), sep)

RECURSIVE readlines(_)
\* StringIO(text).readlines(): every line keeps its "\n"; no line for ""
readlines(text) ==
  LET i == IndexOf(text, "\n")
  IN IF text = <<>> THEN <<>>
     ELSE IF i = 0 THEN <<text>>
     ELSE <<SubSeq(text, 1, i)>> \o readlines(SubSeq(text, i + 1, Len(text)))

\* typed Python values
Str(s) == [t |-> "str", v |-> s]
List(vs) == [t |-> "list", v |-> vs]
None == [t |-> "None", v |-> <<>>]
PyEq(a, b) == a.t = b.t /\ a.v = b.v

\* a split_hash that repeats the first two characters
split_hash_repeat(hash) == <<Slice(hash, 0, 2), Slice(hash, 0, 2), hash>>

\* split_hash(hash)
split_hash(hash) == <<Slice(hash, 0, 2), Slice(hash, 2, 4), hash>>

(***************************************************************************)
(* FlatINI: an OrderedDict whose value is a scalar, or a list once the key *)
(* has been assigned twice.  An entry is [k, list, v]: v holds the single  *)
(* value of a scalar entry (list = FALSE) or the values of a list entry.   *)
(***************************************************************************)
FlatINI_new == <<>>

FlatINI_has(d, key) == \E i \in 1..Len(d) : d[i].k = key

FlatINI_pos(d, key) == CHOOSE i \in 1..Len(d) : d[i].k = key

\* FlatINI.__setitem__
FlatINI_setitem(d, key, value) ==
  IF FlatINI_has(d, key)
  THEN [d EXCEPT ![FlatINI_pos(d, key)] =
          [k |-> key, list |-> TRUE, v |-> Append(@.v, value)]]
  ELSE Append(d, [k |-> key, list |-> FALSE, v |-> <<value>>])

\* a readfp that does not strip the key
readfp_line_rawkey(d, rawline) ==
  LET line == Strip(rawline)
      parts == Partition(line, "=")
  IN IF line = <<>> \/ Head(line) = "#" THEN d
     ELSE FlatINI_setitem(d, parts[1], Strip(Strip(parts[3])))

\* one iteration of the loop of FlatINI.readfp
readfp_line(d, rawline) ==
  LET line == Strip(rawline)
      parts == Partition(line, "=")
  IN IF line = <<>> \/ Head(line) = "#" THEN d
     ELSE FlatINI_setitem(d, Strip(parts[1]), Strip(Strip(parts[3])))

RECURSIVE readfp_from(_, _)
readfp_from(d, lines) ==
  IF lines = <<>> THEN d
  ELSE readfp_from(readfp_line(d, Head(lines)), Tail(lines))

\* FlatINI().readfp(StringIO(text)): text is the sequence of its lines
readfp(lines) == readfp_from(FlatINI_new, lines)

Cfg(d) == [t |-> "FlatINI", v |-> d]

\* self[key] of a key that is there (OrderedDict.__getitem__): the scalar, or
\* the list once the key has been assigned twice
FlatINI_getitem(d, key) ==
  IF d[FlatINI_pos(d, key)].list
  THEN List([i \in 1..Len(d[FlatINI_pos(d, key)].v) |-> Str(d[FlatINI_pos(d, key)].v[i])])
  ELSE Str(d[FlatINI_pos(d, key)].v[1])

\* what a generator hands out when it is consumed to its end: the elements it
\* has yielded, and the exception that has ended it, if any
Yielded(vs) == [t |-> "yielded", v |-> vs, exc |-> "none"]
ValueError(vs) == [t |-> "yielded", v |-> vs, exc |-> "ValueError"]

\* the (k, item) pairs of one entry of the OrderedDict
entry_items(e) == [i \in 1..Len(e.v) |-> <<e.k, e.v[i]>>]

RECURSIVE items_from(_)
items_from(d) == IF d = <<>> THEN <<>> ELSE entry_items(Head(d)) \o items_from(Tail(d))

\* FlatINI.items
FlatINI_items(d) == Yielded(items_from(d))

RECURSIVE keys_from(_)
keys_from(d) ==
  IF d = <<>> THEN <<>>
  ELSE [i \in 1..Len(Head(d).v) |-> Head(d).k] \o keys_from(Tail(d))

\* FlatINI.keys
FlatINI_keys(d) == Yielded(keys_from(d))

\* what "for k, v in" unpacks of one value of the OrderedDict: the characters
\* of a scalar, the elements of a list
unpacked(e) == IF e.list THEN e.v ELSE [i \in 1..Len(e.v[1]) |-> <<e.v[1][i]>>]

RECURSIVE values_from(_, _)
\* the loop of FlatINI.values, "for k, v in super().values()": each value is
\* unpacked into k, v, which raises ValueError unless it has two elements; v
\* is then a str, never a list
values_from(d, done) ==
  IF d = <<>> THEN Yielded(done)
  ELSE IF Len(unpacked(Head(d))) # 2 THEN ValueError(done)
  ELSE values_from(Tail(d), Append(done, unpacked(Head(d))[2]))

\* FlatINI.values
FlatINI_values(d) == values_from(d, <<>>)

\* "{} = {}".format(k, v)
format_item(kv) == kv[1] \o <<" ", "=", " ">> \o kv[2]

\* FlatINI.__str__
FlatINI_str(d) == Join([i \in 1..Len(items_from(d)) |-> format_item(items_from(d)[i])], "\n")

(***************************************************************************)
(* NGDPCache: the directory tree basedir/key/name.  cache maps each        *)
(* existing directory key to the files in it (name -> bytes).              *)
(***************************************************************************)
EmptyDir == [n \in {} |-> <<>>]
\* the cache directory without any subdirectory
NoFiles == [k \in {} |-> EmptyDir]
\* no process on the cache directory but the clients
NoProcs == <<>>

\* NGDPCache.contains
cache_contains(c, key, name) == key \in DOMAIN c /\ name \in DOMAIN c[key]

\* NGDPCache.get
cache_get(c, key, name) == c[key][name]

\* os.makedirs(dirname) when the directory is not there
cache_makedirs(c, key) == IF key \in DOMAIN c THEN c ELSE (key :> EmptyDir) @@ c

\* NGDPCache.write: open(fname, "wb") truncates, then the data is written
cache_write(c, key, name, data) ==
  [cache_makedirs(c, key) EXCEPT ![key] = (name :> data) @@ @]

(***************************************************************************)
(* The world outside: regions, hashes, and what the servers may answer.    *)
(***************************************************************************)
\* number of data rows of the versions manifest the patch server serves
MaxRows == 3

\* the status cdn_get accepts
HTTP_OK == 200
\* statuses of failed requests
ErrorStatuses == {404, 500}

EU == <<"eu">>
US == <<"us">>
KR == <<"kr">>

Clients == {"c1", "c2"}

\* the regions a client may be constructed for
Regions == {EU, KR}

\* NGDPConnection.__init__: self.host = url.format(region=region)
Host(region) == <<"http://">> \o region \o <<".patch.battle.net:1119/hsb">>

H1 == <<"a", "b", "c", "d">>
H2 == <<"a", "b", "e", "f">>
H3 == <<"a", "b", "g", "h">>
\* the hashes get_config is called with directly
Hashes == {H1, H2}
\* the hashes the versions manifest names
ManifestHashes == {H1, H2, H3}
\* the hashes get_data and get_patch are called with
ArchiveHashes == {H1}

\* config, data and patch objects the CDN may serve, as lines of text
Blob1 == << <<" ", "k", " ", "=", " ", "1">>, <<"#", "c">>, <<>>,
            <<"p", "=", "2">>, <<"k", "=", "3", "=", "4", " ">> >>
Blob2 == << <<"k", "=", "2">> >>
Blobs == {Blob1, Blob2}

\* what the CDN may answer to the GET of a config object
ObjResponses ==
  {[status |-> HTTP_OK, content |-> b] : b \in Blobs}
    \cup {[status |-> st, content |-> <<>>] : st \in ErrorStatuses}

\* what the CDN may answer to the GET of an archive, an index or a patch
ArchiveResponses ==
  {[status |-> HTTP_OK, content |-> Blob2], [status |-> 404, content |-> <<>>]}

\* the cdns manifests the patch server may serve, as lines of text
CdnsHeader == <<"Name", "!", "STRING:0", "|", "Path", "!", "STRING:0", "|",
                "Hosts", "!", "STRING:0">>
CdnsFull == << CdnsHeader,
               <<"us", "|", "pu", "|", "u1">>,
               <<"eu", "|", "p", "|", "h1", " ", "h2">>,
               <<"eu", "|", "q", "|", "h3">> >>
CdnsKrFirst == << CdnsHeader,
                  <<"kr", "|", "pk", "|", "k1", " ", "k2">>,
                  <<"eu", "|", "p", "|", "h4">> >>
CdnsHeaderOnly == << CdnsHeader >>
CdnsEmptyBody == << >>

CdnsResponses ==
  {[status |-> HTTP_OK, content |-> b] :
      b \in {CdnsFull, CdnsKrFirst, CdnsHeaderOnly, CdnsEmptyBody}}
    \cup {[status |-> 404, content |-> CdnsEmptyBody]}

VersionsHeader == <<"Region", "!", "STRING:0", "|", "BuildConfig", "!", "HEX:16",
                    "|", "CDNConfig", "!", "HEX:16", "|", "BuildId", "!", "DEC:4">>

\* the i-th data row of the versions manifest: eu, us, eu, kr, eu, ...
VersionsLine(i) ==
  LET region == IF i % 2 = 1 THEN EU ELSE IF i % 4 = 2 THEN US ELSE KR
      build == IF i % 4 \in {1, 2} THEN H1 ELSE H2
      cdncfg == IF i % 4 \in {1, 0} THEN H2 ELSE IF i % 4 = 3 THEN H3 ELSE H1
  IN region \o <<"|">> \o build \o <<"|">> \o cdncfg \o <<"|", "b">>

VersionsBody(n) == <<VersionsHeader>> \o [i \in 1..n |-> VersionsLine(i)]

VersionsResponses ==
  {[status |-> HTTP_OK, content |-> b] : b \in {VersionsBody(MaxRows), << >>}}

\* md5(content).hexdigest(), modelled as an injective function of the content
md5(content) == <<"md5">> \o content

(***************************************************************************)
(* Manifest parsing                                                        *)
(***************************************************************************)
\* csv.reader(StringIO(text), delimiter="|"): one list of cells per line, the
\* empty list for an empty line (the texts have no quote character)
csv_reader(lines) ==
  [i \in 1..Len(lines) |-> IF lines[i] = <<>> THEN <<>> ELSE Split(lines[i], "|")]

\* a column name that keeps its type annotation
column_name_raw(c) == c

\* c.split("!")[0]
column_name(c) == Split(c, "!")[1]

\* {k: v for k, v in zip(column_names, row)}: a later duplicate name wins
zip_dict(names, row) ==
  LET n == Min(Len(names), Len(row))
  IN [k \in {names[j] : j \in 1..n} |->
        Str(row[CHOOSE j \in 1..n :
                  names[j] = k /\ \A j2 \in (j + 1)..n : names[j2] # k])]

\* NGDPConnection._parse_csv, for a non-empty list of rows
parse_csv(rows) ==
  LET column_names == [j \in 1..Len(rows[1]) |-> column_name(rows[1][j])]
  IN [i \in 1..(Len(rows) - 1) |-> zip_dict(column_names, rows[i + 1])]

(***************************************************************************)
(* NGDPConnection.  A call threads a record m through the code:            *)
(*   cache  the directory tree          obj   self._obj_cache              *)
(*   host   self._cdn_host (<<>> is None)                                  *)
(*   log    what the call did, in order: HTTP requests, cache writes,      *)
(*          cache lookups, get_config calls                                *)
(*   exc    the exception raised, if any      ret   the value returned     *)
(***************************************************************************)
Exception(type, status, url) == [type |-> type, status |-> status, url |-> url]
NoExc == Exception("none", 0, <<>>)
\* ServerError("Got HTTP %r when querying %r" % (r.status_code, url))
ServerError(status, url) == Exception("ServerError", status, url)
ServerConfigurationError == Exception("ServerConfigurationError", 0, <<>>)
IndexError == Exception("IndexError", 0, <<>>)
TypeError == Exception("TypeError", 0, <<>>)

Raised(m) == m.exc.type # "none"
Raise(m, e) == [m EXCEPT !.exc = e]
Return(m, v) == [m EXCEPT !.ret = v]
Emit(m, e) == [m EXCEPT !.log = Append(@, e)]

Event(ev, key, name, url, status, hit, arg) ==
  [ev |-> ev, key |-> key, name |-> name, url |-> url, status |-> status,
   hit |-> hit, arg |-> arg]
GetEv(url, status) == Event("GET", "", <<>>, url, status, FALSE, None)
WriteEv(key, name) == Event("write", key, name, <<>>, 0, FALSE, None)
ContainsEv(key, name, hit) == Event("contains", key, name, <<>>, 0, hit, None)
ConfigEv(arg) == Event("get_config", "", <<>>, <<>>, 0, FALSE, arg)

NameCol == <<"Name">>
PathCol == <<"Path">>
HostsCol == <<"Hosts">>
RegionCol == <<"Region">>
BuildConfigCol == <<"BuildConfig">>
CDNConfigCol == <<"CDNConfig">>

\* NGDPConnection.get: requests.get(self.host + path), whatever the status
get(m, region, path, resp) ==
  Return(Emit(m, GetEv(Host(region) \o <<path>>, resp.status)), resp)

\* a manifest stored under the name of its path
manifest_key_by_path(path, content) == <<path>>

\* the name the manifest's bytes are stored under: hash = md5(r.content).hexdigest()
manifest_key(path, content) == md5(content)

\* _parse_csv raises IndexError at rows[0] when there is no row at all
parse_csv_fails(rows) == rows = <<>>

\* self._obj_cache[path] = self._parse_csv(reader); return self._obj_cache[path]
csv_memoize(m2, path, table) == Return([m2 EXCEPT !.obj = (path :> table) @@ @], table)

\* self._parse_csv(reader), which raises IndexError before anything is memoized
csv_parse(m2, path, reader) ==
  IF parse_csv_fails(reader) THEN Raise(m2, IndexError)
  ELSE csv_memoize(m2, path, parse_csv(reader))

\* self.cache.write("cdns", hash, r.content, hash)
csv_write(m1, hash) ==
  [Emit(m1, WriteEv("cdns", hash))
     EXCEPT !.cache = cache_write(@, "cdns", hash, m1.ret.content)]

\* _get_cached_csv once r = self.get(path) has returned (m1.ret is r)
csv_fetched(m1, path) ==
  csv_parse(csv_write(m1, manifest_key(path, m1.ret.content)), path,
            csv_reader(m1.ret.content))

\* NGDPConnection._get_cached_csv
get_cached_csv(m, region, path, resp) ==
  IF path \in DOMAIN m.obj THEN Return(m, m.obj[path])
  ELSE csv_fetched(get(m, region, path, resp), path)

\* a selection that ignores the region
select_cdn_first_row(cdns, region) == cdns[1]

\* the for/else loop of NGDPConnection.cdn: the first row named region, else cdns[0]
select_cdn(cdns, region) ==
  IF \E i \in 1..Len(cdns) : PyEq(cdns[i][NameCol], Str(region))
  THEN cdns[CHOOSE i \in 1..Len(cdns) :
              /\ PyEq(cdns[i][NameCol], Str(region))
              /\ \A j \in 1..(i - 1) : ~PyEq(cdns[j][NameCol], Str(region))]
  ELSE cdns[1]

\* "http://{cdn}/{path}/".format(cdn=cdn["Hosts"].split(" ")[0], path=cdn["Path"])
cdn_url(row) ==
  <<"http://">> \o Split(row[HostsCol].v, " ")[1] \o <<"/">> \o row[PathCol].v \o <<"/">>

\* not self._cdn_host
host_unset(host) == host = <<>>

\* not cdns
no_cdn(cdns) == cdns = <<>>

\* self._cdn_host = url; return self._cdn_host
cdn_set(m1, url) == Return([m1 EXCEPT !.host = url], url)

\* NGDPConnection.cdn once cdns = self.cdns has returned (m1.ret is cdns)
cdn_resolve(m1, region) ==
  IF Raised(m1) THEN m1
  ELSE IF no_cdn(m1.ret) THEN Raise(m1, ServerConfigurationError)
  ELSE cdn_set(m1, cdn_url(select_cdn(m1.ret, region)))

\* NGDPConnection.cdn
cdn(m, region, rc) ==
  IF host_unset(m.host) THEN cdn_resolve(get_cached_csv(m, region, "/cdns", rc), region)
  ELSE Return(m, m.host)

\* a cdn_get that does not look at the status
status_bad_never(status) == FALSE

\* r.status_code != 200
status_bad(status) == status # HTTP_OK

\* cdn_get once r = requests.get(url) has returned
cdn_response(m2, url, ro) ==
  IF status_bad(ro.status) THEN Raise(m2, ServerError(ro.status, url))
  ELSE Return(m2, ro.content)

\* cdn_get once self.cdn has returned (m1.ret is the host): url = self.cdn + path
cdn_request(m1, path, ro) ==
  IF Raised(m1) THEN m1
  ELSE cdn_response(Emit(m1, GetEv(m1.ret \o path, ro.status)), m1.ret \o path, ro)

\* NGDPConnection.cdn_get
cdn_get(m, region, path, rc, ro) == cdn_request(cdn(m, region, rc), path, ro)

\* "{0}/{1}/{2}/{3}".format(key, *split_hash(name))
object_path(key, name) ==
  LET sh == split_hash(name)
  IN <<key, "/">> \o sh[1] \o <<"/">> \o sh[2] \o <<"/">> \o sh[3]

\* a get_or_cache that fetches whether or not the object is cached
need_fetch_always(c, key, name) == TRUE

\* not self.cache.contains(key, name)
need_fetch(c, key, name) == ~cache_contains(c, key, name)

\* if name is None: name = hash
default_name(hash, name0) == IF name0.t = "None" THEN hash ELSE name0

\* self.cache.write(key, name, data, hash); return data (m1.ret is data)
cache_store(m1, key, name) ==
  IF Raised(m1) THEN m1
  ELSE Return([Emit(m1, WriteEv(key, name))
                 EXCEPT !.cache = cache_write(@, key, name, m1.ret)],
              m1.ret)

\* the if/else of get_or_cache
fetch_or_read(m0, region, key, name, rc, ro) ==
  IF need_fetch(m0.cache, key, name)
  THEN cache_store(cdn_get(m0, region, object_path(key, name), rc, ro), key, name)
  ELSE Return(m0, cache_get(m0.cache, key, name))

\* get_or_cache from self.cache.contains(key, name) on: os.path.join raises
\* TypeError for a name that is not a str
lookup(m, region, key, name, rc, ro) ==
  IF name.t # "str" THEN Raise(m, TypeError)
  ELSE fetch_or_read(Emit(m, ContainsEv(key, name.v,
                                        cache_contains(m.cache, key, name.v))),
                     region, key, name.v, rc, ro)

\* NGDPConnection.get_or_cache
get_or_cache(m, region, key, hash, name0, rc, ro) ==
  lookup(m, region, key, default_name(hash, name0), rc, ro)

\* config = FlatINI(); config.readfp(StringIO(data.decode("utf-8"))); return config
parse_config(m1) == IF Raised(m1) THEN m1 ELSE Return(m1, Cfg(readfp(m1.ret)))

\* NGDPConnection.get_config
get_config(m, region, hash, rc, ro) ==
  parse_config(get_or_cache(Emit(m, ConfigEv(hash)), region, "config", hash, None, rc, ro))

\* return index, data
index_and_data(index, m2) == IF Raised(m2) THEN m2 ELSE Return(m2, <<index, m2.ret>>)

\* get_data once the index has been fetched or read (m1.ret is index)
get_data_archive(m1, region, hash, rc, ro2) ==
  IF Raised(m1) THEN m1
  ELSE index_and_data(m1.ret, get_or_cache(m1, region, "data", hash, None, rc, ro2))

\* NGDPConnection.get_data
get_data(m, region, hash, rc, ro1, ro2) ==
  get_data_archive(
    get_or_cache(m, region, "data", hash, Str(hash.v \o <<".index">>), rc, ro1),
    region, hash, rc, ro2)

\* NGDPConnection.get_patch
get_patch(m, region, hash, rc, ro) == get_or_cache(m, region, "patch", hash, None, rc, ro)

(***************************************************************************)
(* The versions generator.  A generator object is                          *)
(*   state    "none" (never created), "created" (not started), "suspended" *)
(*            (at the yield), "done" (exhausted), "failed" (it raised)     *)
(*   idx      the number of rows its for loop has taken from the list      *)
(*   yielded  the rows it has handed to its consumer, as they were then    *)
(*   calls    the arguments of the get_config calls it has made            *)
(***************************************************************************)
NewGen == [state |-> "created", idx |-> 0, yielded |-> <<>>, calls |-> <<>>]
NoGen == [state |-> "none", idx |-> 0, yielded |-> <<>>, calls |-> <<>>]

\* a versions that does not filter
row_matches_any(row, region) == TRUE

\* row["Region"] == self.region
row_matches(row, region) == PyEq(row[RegionCol], Str(region))

\* the next row of the for loop that passes the region test, 0 at the end
next_row(table, idx, region) ==
  IF \E i \in (idx + 1)..Len(table) : row_matches(table[i], region)
  THEN CHOOSE i \in (idx + 1)..Len(table) :
         /\ row_matches(table[i], region)
         /\ \A j \in (idx + 1)..(i - 1) : ~row_matches(table[j], region)
  ELSE 0

ConfigArgs(log) ==
  LET evs == SelectSeq(log, LAMBDA e : e.ev = "get_config")
  IN [i \in 1..Len(evs) |-> evs[i].arg]

\* the generator has raised
gen_failed(m, g, i) == [m |-> m, g |-> [g EXCEPT !.state = "failed", !.idx = i]]

\* row[col] = v, on row i of the memoized table
set_cell(m, i, col, v) == [m EXCEPT !.obj["/versions"][i][col] = v]

\* yield row
versions_yield(m3, g, i) ==
  [m |-> m3,
   g |-> [g EXCEPT !.state = "suspended", !.idx = i,
                   !.yielded = Append(@, m3.obj["/versions"][i])]]

\* a versions that yields the row although its CDNConfig could not be resolved
versions_cdncfg_anyway(b, g, i) == versions_yield(b, g, i)

\* row["CDNConfig"] = (what get_config has returned in b)
versions_cdncfg(b, g, i) ==
  IF Raised(b) THEN gen_failed(b, g, i)
  ELSE versions_yield(set_cell(b, i, CDNConfigCol, b.ret), g, i)

\* row["BuildConfig"] = (what get_config has returned in a), then
\* self.get_config(row["CDNConfig"])
versions_buildcfg(a, region, g, i, rc, ro2) ==
  IF Raised(a) THEN gen_failed(a, g, i)
  ELSE versions_cdncfg(
         get_config(set_cell(a, i, BuildConfigCol, a.ret), region,
                    a.obj["/versions"][i][CDNConfigCol], rc, ro2),
         g, i)

\* the for loop at row i, the next row of the region (0: the list is exhausted)
versions_row(m1, region, g, i, rc, ro1, ro2) ==
  IF i = 0
  THEN [m |-> m1, g |-> [g EXCEPT !.state = "done", !.idx = Len(m1.obj["/versions"])]]
  ELSE versions_buildcfg(
         get_config(m1, region, m1.obj["/versions"][i][BuildConfigCol], rc, ro1),
         region, g, i, rc, ro2)

\* the for loop over the list _get_cached_csv has returned
versions_loop(m1, region, g, rc, ro1, ro2) ==
  IF Raised(m1) THEN gen_failed(m1, g, g.idx)
  ELSE versions_row(m1, region, g, next_row(m1.obj["/versions"], g.idx, region),
                    rc, ro1, ro2)

\* the body of NGDPConnection.versions from where generator g stands: to the
\* next yield, to the end of the list, or to an exception
versions_resume(m, region, g, rv, rc, ro1, ro2) ==
  versions_loop(IF g.state = "created"
                THEN get_cached_csv(m, region, "/versions", rv) ELSE m,
                region, g, rc, ro1, ro2)

\* having yielded, resolve the BuildConfig of row j as well
prefetch(r, region, j, rc, ro1) ==
  IF r.g.state = "suspended" /\ j # 0
  THEN [r EXCEPT !.m = [get_config(r.m, region,
                                   r.m.obj["/versions"][j][BuildConfigCol], rc, ro1)
                          EXCEPT !.exc = NoExc, !.ret = r.m.ret]]
  ELSE r

\* the row after the one the generator stands at
row_after(r, region) ==
  IF r.g.state = "suspended" THEN next_row(r.m.obj["/versions"], r.g.idx, region) ELSE 0

\* versions_next_prefetch, given what the body has done
prefetch_after(r, region, rc, ro1) == prefetch(r, region, row_after(r, region), rc, ro1)

\* a next() that, having reached a yield, already resolves the BuildConfig of
\* the row after it
versions_next_prefetch(m, region, g, rv, rc, ro1, ro2) ==
  prefetch_after(versions_resume(m, region, g, rv, rc, ro1, ro2), region, rc, ro1)

\* next() on the generator: the body runs to its next yield and no further
versions_next(m, region, g, rv, rc, ro1, ro2) ==
  versions_resume(m, region, g, rv, rc, ro1, ro2)

(***************************************************************************)
(* A FlatINI under test.  ini is                                           *)
(*   op      the last call: "new", "readfp", "setitem", "getitem", "items",*)
(*           "keys", "values", "reread"                                    *)
(*   text    the text readfp has read (<<>> once assigned to by hand)      *)
(*   parsed  whether conf is what readfp has made of text                  *)
(*   conf    the entries of the OrderedDict                                *)
(*   arg     the key of a getitem                                          *)
(*   out     what the last call has returned                               *)
(*   prev    the entries before a reread                                   *)
(*   sets    the number of assignments made by hand                        *)
(***************************************************************************)
\* the number of lines of a config text
MaxLines == 3
\* the number of assignments made by hand on one FlatINI
MaxAssign == 2

\* the lines a config text is made of
ConfigLines ==
  { <<"A", "=", "1">>, <<"B", "=", "2">>, <<"A", "=", "3">>,
    <<" ", "B", " ", "=", " ", "1", "2", " ">>, <<"#", "A", "=", "1">>, <<>>,
    <<"A", "=", "1", "=", "2">>, <<"B">> }

ConfigTexts ==
  {Join(ls, "\n") : ls \in UNION {[1..n -> ConfigLines] : n \in 0..MaxLines}}

AssignKeys == {<<"A">>, <<"B">>}
AssignValues == {<<"1">>, <<"1", "2">>}

NoIni == [op |-> "none", text |-> <<>>, parsed |-> FALSE, conf |-> FlatINI_new,
          arg |-> <<>>, out |-> None, prev |-> FlatINI_new, sets |-> 0]

\* config = FlatINI(), and the text it is about to read
FreshIni(text) == [NoIni EXCEPT !.op = "new", !.text = text]

\* config.readfp(StringIO(text)), on the new FlatINI
ReadFp ==
  /\ ini.op = "new"
  /\ ini' = [ini EXCEPT !.op = "readfp", !.parsed = TRUE,
                        !.conf = readfp(readlines(ini.text))]

\* config[key] = value
SetItem(key, value) ==
  /\ ini.sets < MaxAssign
  /\ ini' = [ini EXCEPT !.op = "setitem", !.text = <<>>, !.parsed = FALSE,
                        !.conf = FlatINI_setitem(@, key, value),
                        !.arg = key, !.out = None, !.sets = @ + 1]

\* config[key], for a key that is there
GetItem(key) ==
  /\ FlatINI_has(ini.conf, key)
  /\ ini' = [ini EXCEPT !.op = "getitem", !.arg = key,
                        !.out = FlatINI_getitem(ini.conf, key)]

\* list(config.items())
Items == ini' = [ini EXCEPT !.op = "items", !.arg = <<>>, !.out = FlatINI_items(ini.conf)]

\* list(config.keys())
Keys == ini' = [ini EXCEPT !.op = "keys", !.arg = <<>>, !.out = FlatINI_keys(ini.conf)]

\* list(config.values())
Values == ini' = [ini EXCEPT !.op = "values", !.arg = <<>>, !.out = FlatINI_values(ini.conf)]

\* again = FlatINI(); again.readfp(StringIO(str(config))); config = again
Reread ==
  /\ ini' = [ini EXCEPT !.op = "reread", !.arg = <<>>, !.out = Str(FlatINI_str(ini.conf)),
                        !.prev = ini.conf,
                        !.conf = readfp(readlines(FlatINI_str(ini.conf)))]

(***************************************************************************)
(* A manifest under test.  tab is the lines handed to csv.reader and what  *)
(* _parse_csv has returned for them.                                       *)
(***************************************************************************)
\* the number of data rows of a manifest under test
MaxDataRows == 2
\* the number of cells of a data row
MaxCells == 3

HeaderCells == { <<"Foo", "!", "STRING:16">>, <<"Foo", "!", "HEX:16">>, <<"Bar">> }
DataCells == { <<"x">>, <<"y">> }

HeaderLines == {Join(cs, "|") : cs \in UNION {[1..n -> HeaderCells] : n \in 1..2}}
DataLines == {Join(cs, "|") : cs \in UNION {[1..n -> DataCells] : n \in 0..MaxCells}}

Manifests ==
  {<<h>> \o rs : h \in HeaderLines, rs \in UNION {[1..n -> DataLines] : n \in 0..MaxDataRows}}

NoTab == [op |-> "none", lines |-> <<>>, out |-> <<>>]

\* the response whose lines are about to be parsed
NewTab(lines) == [NoTab EXCEPT !.op = "text", !.lines = lines]

\* self._parse_csv(csv.reader(StringIO(text), delimiter="|"))
ParseCsv ==
  /\ tab.op = "text"
  /\ tab' = [tab EXCEPT !.op = "parse", !.out = parse_csv(csv_reader(tab.lines))]

(***************************************************************************)
(* NGDPCache, system call by system call.  A process on the cache          *)
(* directory is                                                            *)
(*   pc      where it stands: "idle" (between calls), "exists", "makedirs",*)
(*           "open", "data" (inside write), "contains", "get" (inside the  *)
(*           contains-then-get of get_or_cache)                            *)
(*   op      the call it is in or has last returned from                   *)
(*   key, name, data, hash   the arguments of the call                     *)
(*   off     the position of its open file, in write                       *)
(*   found   what contains has returned                                    *)
(*   ret     what get has returned                                         *)
(*   exc     the exception the call has raised                             *)
(*   before  the directory tree when the call began (if recorded)          *)
(*   wrote   the name, key and data of the last write it has completed     *)
(***************************************************************************)
Procs == {"p1", "p2"}

\* the index of an archive is cached under the archive's hash + ".index"
IndexName == H1 \o <<".index">>

\* what cache.write is called with: name and hash (get_or_cache, get_data)
WriteNames == {[name |-> H1, hash |-> H1], [name |-> IndexName, hash |-> H1]}
CacheKeys == {"config", "data"}
CacheData == {<<"x", "y">>, <<"z">>}

\* the bytes of the object of a name, when names are content addresses
DataOf(name) == IF name = H1 THEN <<"x", "y">> ELSE <<"z">>

NoWrite == [key |-> "", name |-> <<>>, data |-> <<>>]

IdleProc ==
  [pc |-> "idle", op |-> "none", key |-> "", name |-> <<>>, data |-> <<>>,
   hash |-> <<>>, off |-> 0, found |-> FALSE, ret |-> None, exc |-> "none",
   before |-> NoFiles, wrote |-> NoWrite]

\* a write that names the file by the hash
write_fname_hash(name, hash) == hash

\* fname = os.path.join(dirname, name)
write_fname(name, hash) == name

\* the file after a write of chunk at position off ("NUL" fills a hole)
pwrite(file, off, chunk) ==
  [i \in 1..(IF Len(file) > off + Len(chunk) THEN Len(file) ELSE off + Len(chunk)) |->
     IF i > off /\ i <= off + Len(chunk) THEN chunk[i - off]
     ELSE IF i <= Len(file) THEN file[i] ELSE "NUL"]

\* cache.write(key, name, data, hash) is called
StartWrite(p, key, name, data, hash, observe) ==
  /\ proc[p].pc = "idle"
  /\ proc' = [proc EXCEPT ![p] =
               [@ EXCEPT !.pc = "exists", !.op = "write", !.key = key,
                         !.name = name, !.data = data,
                         !.hash = hash, !.off = 0, !.found = FALSE, !.ret = None,
                         !.exc = "none",
                         !.before = IF observe THEN cache ELSE NoFiles]]
  /\ UNCHANGED cache

\* if not os.path.exists(dirname)
WriteExists(p) ==
  /\ proc[p].pc = "exists"
  /\ proc' = [proc EXCEPT ![p].pc =
               IF proc[p].key \in DOMAIN cache THEN "open" ELSE "makedirs"]
  /\ UNCHANGED cache

\* os.makedirs(dirname): FileExistsError when the directory is there by now
WriteMakedirs(p) ==
  /\ proc[p].pc = "makedirs"
  /\ IF proc[p].key \in DOMAIN cache
     THEN /\ proc' = [proc EXCEPT ![p].pc = "idle", ![p].exc = "FileExistsError"]
          /\ UNCHANGED cache
     ELSE /\ cache' = cache_makedirs(cache, proc[p].key)
          /\ proc' = [proc EXCEPT ![p].pc = "open"]

\* open(fname, "wb"): the file is created, or truncated when it is there
WriteOpen(p) ==
  /\ proc[p].pc = "open"
  /\ cache' = [cache EXCEPT ![proc[p].key] =
                 (write_fname(proc[p].name, proc[p].hash) :> <<>>) @@ @]
  /\ proc' = [proc EXCEPT ![p].pc = "data", ![p].off = 0]

\* f.write(data) and the flush at the end of the with block: the bytes reach
\* the file in one or several writes at the file's position
WriteData(p) ==
  /\ proc[p].pc = "data"
  /\ proc[p].off < Len(proc[p].data)
  /\ \E n \in 1..(Len(proc[p].data) - proc[p].off) :
        /\ cache' = [cache EXCEPT ![proc[p].key][write_fname(proc[p].name, proc[p].hash)] =
                       pwrite(@, proc[p].off,
                              SubSeq(proc[p].data, proc[p].off + 1, proc[p].off + n))]
        /\ proc' = [proc EXCEPT ![p].off = @ + n]

\* the file is closed and write returns
WriteReturn(p) ==
  /\ proc[p].pc = "data"
  /\ proc[p].off = Len(proc[p].data)
  /\ proc' = [proc EXCEPT ![p].pc = "idle",
                          ![p].wrote = [key |-> proc[p].key, name |-> proc[p].name,
                                        data |-> proc[p].data]]
  /\ UNCHANGED cache

\* get_or_cache reaches "if not self.cache.contains(key, name)"
StartLookup(p, key, name, observe) ==
  /\ proc[p].pc = "idle"
  /\ proc' = [proc EXCEPT ![p] =
               [@ EXCEPT !.pc = "contains", !.op = "lookup", !.key = key,
                         !.name = name, !.data = <<>>, !.hash = name, !.off = 0,
                         !.found = FALSE, !.ret = None, !.exc = "none",
                         !.before = IF observe THEN cache ELSE NoFiles]]
  /\ UNCHANGED cache

\* self.cache.contains(key, name): os.path.exists(path)
LookupContains(p) ==
  /\ proc[p].pc = "contains"
  /\ proc' = [proc EXCEPT
               ![p].found = cache_contains(cache, proc[p].key, proc[p].name),
               ![p].pc = IF cache_contains(cache, proc[p].key, proc[p].name)
                         THEN "get" ELSE "idle"]
  /\ UNCHANGED cache

\* self.cache.get(key, name): open(path, "rb") and f.read()
LookupGet(p) ==
  /\ proc[p].pc = "get"
  /\ proc' = [proc EXCEPT
               ![p].pc = "idle",
               ![p].ret = IF cache_contains(cache, proc[p].key, proc[p].name)
                          THEN Str(cache_get(cache, proc[p].key, proc[p].name))
                          ELSE None,
               ![p].exc = IF cache_contains(cache, proc[p].key, proc[p].name)
                          THEN "none" ELSE "FileNotFoundError"]
  /\ UNCHANGED cache

\* one step of process p; W says what it may write (W.data, by name) and
\* whether the tree is recorded when a call begins (W.observe)
CacheStep(p, W) ==
  \/ \E key \in CacheKeys, n \in WriteNames :
       \E data \in W.data[n.name] : StartWrite(p, key, n.name, data, n.hash, W.observe)
  \/ WriteExists(p)
  \/ WriteMakedirs(p)
  \/ WriteOpen(p)
  \/ WriteData(p)
  \/ WriteReturn(p)
  \/ \E key \in CacheKeys, n \in WriteNames : StartLookup(p, key, n.name, W.observe)
  \/ LookupContains(p)
  \/ LookupGet(p)

\* one process writing any bytes under any name
AnyBytes == [data |-> [n \in {H1, IndexName} |-> CacheData], observe |-> TRUE]

\* processes writing objects under their content addresses
ContentAddressed == [data |-> [n \in {H1, IndexName} |-> {DataOf(n)}], observe |-> FALSE]

(***************************************************************************)
(* The state machine: clients sharing one cache directory                  *)
(***************************************************************************)
NoTables == [p \in {} |-> <<>>]

\* NGDPConnection.__init__, for each client; the cache directory is empty
InitConn ==
  /\ conn_region \in {r \in [Clients -> Regions] : r["c1"] # r["c2"]}
  /\ cache = NoFiles
  /\ obj_cache = [c \in Clients |-> NoTables]
  /\ cdn_host = [c \in Clients |-> <<>>]
  /\ gen = [c \in Clients |-> NoGen]
  /\ cdns_requested = [c \in Clients |-> FALSE]
  /\ last = [client |-> "", op |-> "init", arg |-> None, log |-> <<>>,
             exc |-> NoExc, ret |-> None]

\* client c as a call finds it
M(c) == [cache |-> cache, obj |-> obj_cache[c], host |-> cdn_host[c],
         log |-> <<>>, exc |-> NoExc, ret |-> None]

\* The answer to a request is drawn only when the request can be made: S when
\* needed, one fixed element of S (never looked at by the code) otherwise.
Answers(needed, S) == IF needed THEN S ELSE {CHOOSE r \in S : TRUE}

\* whether a use of the CDN host by client c may request /cdns
MayFetchCdns(c) == cdn_host[c] = <<>> /\ "/cdns" \notin DOMAIN obj_cache[c]
\* whether next() on client c's generator may request /versions
MayFetchVersions(c) == gen[c].state = "created" /\ "/versions" \notin DOMAIN obj_cache[c]
\* whether get_or_cache(key, name) may request the object
MayFetch(key, name) == ~cache_contains(cache, key, name)

\* A world W says what the servers may answer (W.cdns, W.versions, W.objects,
\* W.archives) and whether the calls are recorded in last and in the
\* generator's yielded and calls (W.observe).
World ==
  [cdns |-> CdnsResponses, versions |-> VersionsResponses, objects |-> ObjResponses,
   archives |-> ArchiveResponses, observe |-> TRUE]

\* the world of the clients that share a cache directory: the calls are not
\* recorded, and the patch server answers 200
SharedWorld ==
  [cdns |-> {r \in CdnsResponses : r.status = HTTP_OK /\ r.content \in {CdnsFull, CdnsEmptyBody}},
   versions |-> {r \in VersionsResponses : r.content # << >>},
   objects |-> {r \in ObjResponses : r.status # 500},
   archives |-> ArchiveResponses, observe |-> FALSE]

\* whether the call whose log this is has requested the /cdns manifest
RequestsCdns(log, c) ==
  \E i \in 1..Len(log) :
     log[i].ev = "GET" /\ log[i].url = Host(conn_region[c]) \o <<"/cdns">>

\* what a call leaves behind: the files, the client's fields, and the record of
\* the call (last; cdns_requested[c] says whether c has ever requested /cdns)
Commit(c, op, arg, m, W) ==
  /\ cache' = m.cache
  /\ obj_cache' = [obj_cache EXCEPT ![c] = m.obj]
  /\ cdn_host' = [cdn_host EXCEPT ![c] = m.host]
  /\ last' = IF W.observe
             THEN [client |-> c, op |-> op, arg |-> arg, log |-> m.log, exc |-> m.exc,
                   ret |-> IF Raised(m) THEN None ELSE m.ret]
             ELSE last
  /\ cdns_requested' = IF W.observe
                       THEN [cdns_requested EXCEPT ![c] = @ \/ RequestsCdns(m.log, c)]
                       ELSE cdns_requested

Cdn(c, W) ==
  /\ \E rc \in Answers(MayFetchCdns(c), W.cdns) :
        Commit(c, "cdn", None, cdn(M(c), conn_region[c], rc), W)
  /\ UNCHANGED <<gen, conn_region>>

GetConfig(c, h, W) ==
  /\ \E rc \in Answers(MayFetchCdns(c), W.cdns),
        ro \in Answers(MayFetch("config", h), W.objects) :
        Commit(c, "get_config", Str(h),
               get_config(M(c), conn_region[c], Str(h), rc, ro), W)
  /\ UNCHANGED <<gen, conn_region>>

GetData(c, h, W) ==
  /\ \E rc \in Answers(MayFetchCdns(c), W.cdns),
        ro1 \in Answers(MayFetch("data", h \o <<".index">>), W.archives),
        ro2 \in Answers(MayFetch("data", h), W.archives) :
        Commit(c, "get_data", Str(h),
               get_data(M(c), conn_region[c], Str(h), rc, ro1, ro2), W)
  /\ UNCHANGED <<gen, conn_region>>

GetPatch(c, h, W) ==
  /\ \E rc \in Answers(MayFetchCdns(c), W.cdns),
        ro \in Answers(MayFetch("patch", h), W.archives) :
        Commit(c, "get_patch", Str(h),
               get_patch(M(c), conn_region[c], Str(h), rc, ro), W)
  /\ UNCHANGED <<gen, conn_region>>

\* conn.versions: a new generator object, nothing of its body has run yet
Versions(c, W) ==
  /\ gen' = [gen EXCEPT ![c] = NewGen]
  /\ last' = IF W.observe
             THEN [client |-> c, op |-> "versions", arg |-> None, log |-> <<>>,
                   exc |-> NoExc, ret |-> None]
             ELSE last
  /\ UNCHANGED <<cache, obj_cache, cdn_host, conn_region, cdns_requested>>

\* what next() leaves behind: r.m the client, r.g the generator
NextCommit(c, r, W) ==
  /\ Commit(c, "next", None,
            IF r.g.state = "suspended"
            THEN Return(r.m, r.g.yielded[Len(r.g.yielded)])
            ELSE r.m, W)
  /\ gen' = [gen EXCEPT ![c] =
               IF W.observe
               THEN [r.g EXCEPT !.calls = @ \o ConfigArgs(r.m.log)]
               ELSE [r.g EXCEPT !.yielded = <<>>]]

\* next() on the client's current generator
VersionsNext(c, W) ==
  /\ gen[c].state \in {"created", "suspended"}
  /\ \E rv \in Answers(MayFetchVersions(c), W.versions),
        rc \in Answers(MayFetchCdns(c), W.cdns),
        ro1 \in Answers(\E h \in ManifestHashes : MayFetch("config", h), W.objects),
        ro2 \in Answers(\E h \in ManifestHashes : MayFetch("config", h), W.objects) :
        NextCommit(c, versions_next(M(c), conn_region[c], gen[c], rv, rc, ro1, ro2), W)
  /\ UNCHANGED conn_region

Step(c, W) ==
  \/ Cdn(c, W)
  \/ \E h \in Hashes : GetConfig(c, h, W)
  \/ \E h \in ArchiveHashes : GetData(c, h, W)
  \/ \E h \in ArchiveHashes : GetPatch(c, h, W)
  \/ Versions(c, W)
  \/ VersionsNext(c, W)

\* one client and its cache directory
Next == Step("c1", World) /\ UNCHANGED <<ini, tab, proc>>

\* two clients on one cache directory
NextShared == (\E c \in Clients : Step(c, SharedWorld)) /\ UNCHANGED <<ini, tab, proc>>

\* the state of every variable a specification does not use
Init == InitConn /\ ini = NoIni /\ tab = NoTab /\ proc = NoProcs

Spec == Init /\ [][Next]_vars

SpecShared == Init /\ [][NextShared]_vars

\* the connections at rest
ConnAtRest == InitConn /\ conn_region = [c \in Clients |-> IF c = "c1" THEN EU ELSE KR]
conn_vars == <<cache, obj_cache, cdn_host, gen, last, conn_region, cdns_requested>>

\* calls on one FlatINI
InitConfig ==
  ConnAtRest /\ ini \in {FreshIni(text) : text \in ConfigTexts} /\ tab = NoTab /\ proc = NoProcs

NextConfig ==
  /\ \/ ReadFp
     \/ \E key \in AssignKeys, value \in AssignValues : SetItem(key, value)
     \/ \E key \in AssignKeys \cup {<<>>} : GetItem(key)
     \/ Items
     \/ Keys
     \/ Values
     \/ Reread
  /\ UNCHANGED <<conn_vars, tab, proc>>

SpecConfig == InitConfig /\ [][NextConfig]_vars

\* manifests handed to _parse_csv
InitCsv ==
  ConnAtRest /\ ini = NoIni /\ tab \in {NewTab(lines) : lines \in Manifests} /\ proc = NoProcs

NextCsv == ParseCsv /\ UNCHANGED <<conn_vars, ini, proc>>

SpecCsv == InitCsv /\ [][NextCsv]_vars

cache_vars == <<obj_cache, cdn_host, gen, last, conn_region, cdns_requested, ini, tab>>

\* processes on an empty cache directory
InitCache == ConnAtRest /\ ini = NoIni /\ tab = NoTab /\ proc = [p \in Procs |-> IdleProc]

\* one process and the cache directory
NextCache == CacheStep("p1", AnyBytes) /\ UNCHANGED cache_vars

\* two processes on one cache directory
NextCacheShared == (\E p \in Procs : CacheStep(p, ContentAddressed)) /\ UNCHANGED cache_vars

SpecCache == InitCache /\ [][NextCache]_vars

SpecCacheShared == InitCache /\ [][NextCacheShared]_vars

(***************************************************************************)
(* What a call's log says                                                  *)
(***************************************************************************)
Gets(log) == SelectSeq(log, LAMBDA e : e.ev = "GET")
Writes(log) == SelectSeq(log, LAMBDA e : e.ev = "write")
Lookups(log) == SelectSeq(log, LAMBDA e : e.ev = "contains")

\* the URL of the /cdns manifest for the client of the last call
CdnsUrl(c) == Host(conn_region[c]) \o <<"/cdns">>
VersionsUrl(c) == Host(conn_region[c]) \o <<"/versions">>
OnPatchServer(c, url) == url \in {CdnsUrl(c), VersionsUrl(c)}

\* config/{hash[0:2]}/{hash[2:4]}/{hash}, for a hash of four characters or more
ShardedPath(key, h) == <<key, "/", h[1], h[2], "/", h[3], h[4], "/">> \o h

(***************************************************************************)
(* C1: a get_config(H) that finds ("config", H) in the cache makes no HTTP *)
(* request (neither of the object nor of /cdns), writes nothing to the     *)
(* cache, leaves the cache as it was and returns the parse of the cached   *)
(* bytes; and inside any call, a cache lookup that hits is followed by     *)
(* no request and no write before the next lookup.                         *)
(***************************************************************************)
HitsAreQuiet(log) ==
  \A i \in 1..Len(log) :
     (log[i].ev = "contains" /\ log[i].hit)
       => (i = Len(log) \/ log[i + 1].ev \notin {"GET", "write"})

C1_CacheHitNoNetwork ==
  [][/\ HitsAreQuiet(last'.log)
     /\ \A h \in Hashes :
          (/\ last'.op = "get_config"
           /\ PyEq(last'.arg, Str(h))
           /\ cache_contains(cache, "config", h))
            => /\ Gets(last'.log) = <<>>
               /\ Writes(last'.log) = <<>>
               /\ last'.exc = NoExc
               /\ PyEq(last'.ret, Cfg(readfp(cache_get(cache, "config", h))))
               /\ cache' = cache]_vars

\* a get_config has just been answered from the cache
C1_Witness ==
  /\ last.op = "get_config"
  /\ \E i \in 1..Len(last.log) : last.log[i].ev = "contains" /\ last.log[i].hit

(***************************************************************************)
(* C2, as claimed: a successful get_config(H) that does not find           *)
(* ("config", H) in the cache makes exactly one HTTP request and one cache *)
(* write in total, whether or not the CDN host was resolved before.        *)
(***************************************************************************)
MissedConfig(l) ==
  /\ l.op = "get_config"
  /\ l.exc = NoExc
  /\ \E i \in 1..Len(l.log) : l.log[i].ev = "contains" /\ ~l.log[i].hit

C2_WitnessResolved ==
  /\ MissedConfig(last)
  /\ Len(Gets(last.log)) = 1

(***************************************************************************)
(* C3: when the CDN answers the GET of an object with a status other than  *)
(* 200, the call fails with ServerError carrying that status and the URL   *)
(* that ends in the requested path key/{name[0:2]}/{name[2:4]}/{name}, the *)
(* request is the last thing the call does and it was made once, and the   *)
(* cache holds no entry for (key, name).  For config, data and patch.      *)
(***************************************************************************)
C3_FailedFetchNoEntry ==
  \A i \in 1..Len(last.log) :
    LET e == last.log[i]
        c == last.client
    IN (e.ev = "GET" /\ ~OnPatchServer(c, e.url) /\ e.status # HTTP_OK)
         => /\ i = Len(last.log)
            /\ last.exc = ServerError(e.status, e.url)
            /\ i > 1 /\ \E j \in 1..(i - 1) :
                 /\ last.log[j].ev = "contains"
                 /\ \A j2 \in (j + 1)..(i - 1) : last.log[j2].ev # "contains"
                 /\ last.log[j].key \in {"config", "data", "patch"}
                 /\ e.url = cdn_host[c] \o ShardedPath(last.log[j].key, last.log[j].name)
                 /\ ~cache_contains(cache, last.log[j].key, last.log[j].name)
            /\ Cardinality({k \in 1..Len(last.log) :
                              last.log[k].ev = "GET" /\ last.log[k].url = e.url}) = 1

\* get_data has fetched the index and then failed on the archive itself
C3_Witness ==
  /\ last.op = "get_data"
  /\ last.exc.type = "ServerError"
  /\ last.exc.status = 404
  /\ Len(Writes(last.log)) >= 1
  /\ cache_contains(cache, "data", H1 \o <<".index">>)

(***************************************************************************)
(* C4: once a cache entry (key, name) exists, no call of any client of the *)
(* cache directory removes it or changes the bytes read back for it.       *)
(***************************************************************************)
C4_WriteOnce ==
  [][\A key \in DOMAIN cache : \A name \in DOMAIN cache[key] :
        /\ cache_contains(cache', key, name)
        /\ cache_get(cache', key, name) = cache_get(cache, key, name)]_vars

\* both clients have resolved their CDN host (each wrote the manifest), both
\* hold a versions table, and the config of both hashes is in the cache
C4_Witness ==
  /\ \A c \in Clients : cdn_host[c] # <<>> /\ "/versions" \in DOMAIN obj_cache[c]
  /\ \A h \in Hashes : cache_contains(cache, "config", h)
  /\ cache_get(cache, "config", H1) # cache_get(cache, "config", H2)

(***************************************************************************)
(* What versions is expected to produce, computed from the manifest the    *)
(* patch server serves and not from the client's table.                    *)
(***************************************************************************)
\* the versions table as parsed, before any row is enriched
PristineVersions == parse_csv(csv_reader(VersionsBody(MaxRows)))

\* the rows of the client's region, in manifest order
RegionRows(c) ==
  SelectSeq(PristineVersions, LAMBDA row : row[RegionCol].v = conn_region[c])

\* the hashes get_config is to be called with for the rows of the region
RegionCalls(c) ==
  LET E == RegionRows(c)
  IN [n \in 1..(2 * Len(E)) |->
        IF n % 2 = 1 THEN E[(n + 1) \div 2][BuildConfigCol]
        ELSE E[n \div 2][CDNConfigCol]]

CachedConfig(h) == Cfg(readfp(cache_get(cache, "config", h)))

\* a row with both hashes replaced by the parse of the cached config
Enriched(row) ==
  [row EXCEPT ![BuildConfigCol] = CachedConfig(row[BuildConfigCol].v),
              ![CDNConfigCol] = CachedConfig(row[CDNConfigCol].v)]

AllStr(args) == \A n \in 1..Len(args) : args[n].t = "str"

\* generator g of client c has yielded the first rows of the region, enriched
YieldedRegionPrefix(c, g) ==
  /\ Len(g.yielded) <= Len(RegionRows(c))
  /\ \A j \in 1..Len(g.yielded) : g.yielded[j] = Enriched(RegionRows(c)[j])

(***************************************************************************)
(* C5, as claimed: versions can be invoked again after an earlier          *)
(* iteration (complete, abandoned or aborted): a next() on the new         *)
(* generator raises nothing but the error of a request it made, what it    *)
(* yields are the rows of the region from the first on with both configs   *)
(* parsed, and when it is exhausted it has yielded all of them.            *)
(***************************************************************************)
C5_VersionsRestartable ==
  last.op = "next" =>
    LET g == gen[last.client]
    IN /\ last.exc.type \in {"none", "ServerError", "ServerConfigurationError",
                             "IndexError"}
       /\ g.state \in {"suspended", "done"} => YieldedRegionPrefix(last.client, g)
       /\ g.state = "done" => Len(g.yielded) = Len(RegionRows(last.client))

(***************************************************************************)
(* C6: on a first iteration (every row the generator has reached still     *)
(* held its hashes), versions yields exactly the rows whose Region is the  *)
(* client's, in manifest order, each with BuildConfig and CDNConfig        *)
(* replaced by the parsed config of its hash; when it is exhausted it has  *)
(* yielded all of them; and its get_config calls are, in order, those of   *)
(* the region's rows, so no row of another region causes one.              *)
(***************************************************************************)
C6_VersionsRegionRows ==
  \A c \in Clients :
    LET g == gen[c]
    IN (g.state # "none" /\ AllStr(g.calls))
         => /\ YieldedRegionPrefix(c, g)
            /\ g.state = "done" => Len(g.yielded) = Len(RegionRows(c))
            /\ Len(g.calls) <= Len(RegionCalls(c))
            /\ \A n \in 1..Len(g.calls) : PyEq(g.calls[n], RegionCalls(c)[n])

\* a first iteration has run to its end and has yielded two rows
C6_Witness ==
  /\ gen["c1"].state = "done"
  /\ Len(gen["c1"].yielded) = 2
  /\ AllStr(gen["c1"].calls)

(***************************************************************************)
(* C7: a generator that stands at a yield after k rows, or has not been    *)
(* started, has made get_config calls for the hashes of the first k rows   *)
(* of the region and for nothing else.                                     *)
(***************************************************************************)
C7_VersionsLazy ==
  \A c \in Clients :
    LET g == gen[c]
        k == Len(g.yielded)
    IN g.state \in {"created", "suspended"}
         => /\ Len(g.calls) = 2 * k
            /\ 2 * k <= Len(RegionCalls(c))
            /\ \A n \in 1..(2 * k) : PyEq(g.calls[n], RegionCalls(c)[n])

\* the consumer has taken one row and a second row of the region is waiting
C7_Witness ==
  /\ gen["c1"].state = "suspended"
  /\ Len(gen["c1"].yielded) = 1
  /\ Len(RegionRows("c1")) > 1

(***************************************************************************)
(* C8: the resolved CDN host is "http://" + the first space-separated      *)
(* element of Hosts + "/" + Path + "/" of the first row of the cdns table  *)
(* whose Name is the client's region, or of the first row of the table     *)
(* when no row has that name.                                              *)
(***************************************************************************)
RowsNamed(T, r) == {i \in 1..Len(T) : T[i][NameCol].v = r}

Least(S) == CHOOSE i \in S : \A j \in S : i <= j

ChosenRow(T, r) == IF RowsNamed(T, r) # {} THEN T[Least(RowsNamed(T, r))] ELSE T[1]

\* the text before the first space
FirstElement(hosts) ==
  SubSeq(hosts, 1, Least({i \in 1..(Len(hosts) + 1) : i > Len(hosts) \/ hosts[i] = " "}) - 1)

C8_CdnHostSelection ==
  \A c \in Clients :
    cdn_host[c] # <<>>
      => /\ "/cdns" \in DOMAIN obj_cache[c]
         /\ obj_cache[c]["/cdns"] # <<>>
         /\ LET row == ChosenRow(obj_cache[c]["/cdns"], conn_region[c])
            IN cdn_host[c] = <<"http://">> \o FirstElement(row[HostsCol].v) \o <<"/">>
                               \o row[PathCol].v \o <<"/">>
         /\ (obj_cache[c]["/cdns"] = parse_csv(csv_reader(CdnsFull)) /\ conn_region[c] = EU)
              => cdn_host[c] = <<"http://", "h1", "/", "p", "/">>
         /\ (obj_cache[c]["/cdns"] = parse_csv(csv_reader(CdnsFull)) /\ conn_region[c] = KR)
              => cdn_host[c] = <<"http://", "u1", "/", "pu", "/">>

\* region eu has been resolved against rows us, eu (Hosts "h1 h2", Path "p"), eu
C8_Witness ==
  /\ conn_region["c1"] = EU
  /\ cdn_host["c1"] # <<>>
  /\ obj_cache["c1"]["/cdns"] = parse_csv(csv_reader(CdnsFull))

(***************************************************************************)
(* C9, as claimed: a client requests the /cdns manifest at most once: a    *)
(* client that has requested it never requests it again.                   *)
(***************************************************************************)
C9_CdnsFetchedOnce ==
  [][\A c \in Clients :
       (cdns_requested[c] /\ last'.client = c) => ~RequestsCdns(last'.log, c)]_vars

(***************************************************************************)
(* C10, as claimed: when the cdns manifest a call has fetched is empty (no *)
(* row at all, or a header row and no data row), the call fails with       *)
(* ServerConfigurationError.                                               *)
(***************************************************************************)
C10_EmptyCdnsIsConfigError ==
  \A i \in 1..Len(last.log) :
    (/\ last.log[i].ev = "GET"
     /\ last.log[i].url = CdnsUrl(last.client)
     /\ i < Len(last.log)
     /\ last.log[i + 1].ev = "write"
     /\ last.log[i + 1].name \in {md5(CdnsEmptyBody), md5(CdnsHeaderOnly)})
      => last.exc = ServerConfigurationError

(***************************************************************************)
(* Config texts as the specification reads them                            *)
(***************************************************************************)
\* the lines of a text that are neither blank nor a comment, trimmed
Meaningful(text) ==
  SelectSeq([i \in 1..Len(readlines(text)) |-> Strip(readlines(text)[i])],
            LAMBDA l : l # <<>> /\ Head(l) # "#")

\* one (key, value) per such line: the line split on its first "=", both trimmed
LineEntries(text) ==
  [i \in 1..Len(Meaningful(text)) |->
     <<Strip(Partition(Meaningful(text)[i], "=")[1]),
       Strip(Partition(Meaningful(text)[i], "=")[3])>>]

\* the value of the first line of the text whose key is key
FirstValue(text, key) ==
  LineEntries(text)[Least({i \in 1..Len(LineEntries(text)) : LineEntries(text)[i][1] = key})][2]

\* the keys that occur in the text
KeysOf(text) == {LineEntries(text)[i][1] : i \in 1..Len(LineEntries(text))}

\* C11: for a config parsed from a text, config[K] of a key K that occurs in
\* the text is the value of K's first line, as one string, also when K occurs
\* on several lines.
C11_LookupFirstValue ==
  (ini.op = "getitem" /\ ini.parsed)
    => ini.out = Str(FirstValue(ini.text, ini.arg))

\* C12: iterating the items of a config parsed from a text yields one
\* (key, value) per non-blank, non-comment line, in the order of the lines,
\* also when the lines of a repeated key are interleaved with other keys.
C12_ItemsInLineOrder ==
  (ini.op = "items" /\ ini.parsed)
    => (ini.out.exc = "none" /\ ini.out.v = LineEntries(ini.text))

(***************************************************************************)
(* Manifests as the specification reads them                               *)
(***************************************************************************)
\* the text of a header cell before its first "!"
NameOf(c) == IF IndexOf(c, "!") = 0 THEN c ELSE SubSeq(c, 1, IndexOf(c, "!") - 1)

\* the last column of header H whose name is that of column j
LastNamed(H, j) ==
  CHOOSE j2 \in j..Len(H) :
    NameOf(H[j2]) = NameOf(H[j]) /\ \A j3 \in (j2 + 1)..Len(H) : NameOf(H[j3]) # NameOf(H[j])

\* the rows csv.reader makes of the lines under test
TabRows == csv_reader(tab.lines)

\* the data rows with as many cells as the header
WellFormed == {i \in 1..(Len(TabRows) - 1) : Len(TabRows[i + 1]) = Len(TabRows[1])}

\* C13 as stated: one mapping per data row, in row order, and for every data
\* row with as many cells as the header, the mapping sends the name of every
\* header cell j to the row's cell j.
C13_ParsePositional ==
  tab.op = "parse"
    => /\ Len(tab.out) = Len(TabRows) - 1
       /\ \A i \in WellFormed : \A j \in 1..Len(TabRows[1]) :
             /\ NameOf(TabRows[1][j]) \in DOMAIN tab.out[i]
             /\ tab.out[i][NameOf(TabRows[1][j])] = Str(TabRows[i + 1][j])

\* C13 as amended: one mapping per data row, in row order, and for every data
\* row with as many cells as the header, the mapping sends the name of every
\* header cell j to the row's cell at the last column that has that name,
\* which is cell j when no later column shares the name.
C13_ParsePositionalLastWins ==
  tab.op = "parse"
    => /\ Len(tab.out) = Len(TabRows) - 1
       /\ \A i \in WellFormed : \A j \in 1..Len(TabRows[1]) :
             /\ NameOf(TabRows[1][j]) \in DOMAIN tab.out[i]
             /\ tab.out[i][NameOf(TabRows[1][j])]
                  = Str(TabRows[i + 1][LastNamed(TabRows[1], j)])

\* a manifest with an annotated header cell and two well-formed rows is parsed
C13_Witness ==
  /\ tab.op = "parse"
  /\ tab.lines = << <<"Foo", "!", "STRING:16", "|", "Bar">>,
                    <<"x", "|", "y">>, <<"y", "|", "y">> >>
  /\ Len(tab.out) = 2
  /\ tab.out[1][<<"Foo">>] = Str(<<"x">>)
  /\ tab.out[2][<<"Foo">>] = Str(<<"y">>)

(***************************************************************************)
(* Config round trip and views                                             *)
(***************************************************************************)
\* C19: a config parsed from a text, written as its lines "k = v" joined by
\* newlines and parsed again, has the same items in the same order and the
\* same value or list of values under every key; doing it again changes nothing.
C19_ConfigRoundTrip ==
  (ini.op = "reread" /\ ini.parsed)
    => /\ items_from(ini.conf) = items_from(ini.prev)
       /\ items_from(ini.conf) = items_from(readfp(readlines(ini.text)))
       /\ \A key \in KeysOf(ini.text) :
             /\ FlatINI_has(ini.conf, key)
             /\ FlatINI_getitem(ini.conf, key) = FlatINI_getitem(ini.prev, key)

\* a text with a repeated key, interleaved with another key and written with
\* other spacing than __str__ uses, has made the round trip
C19_Witness ==
  /\ ini.op = "reread" /\ ini.parsed
  /\ ini.text = <<"A", "=", "1", "\n", " ", "B", " ", "=", " ", "1", "2", " ", "\n",
                  "A", "=", "3">>
  /\ ini.out = Str(<<"A", " ", "=", " ", "1", "\n", "A", " ", "=", " ", "3", "\n",
                     "B", " ", "=", " ", "1", "2">>)
  /\ FlatINI_getitem(ini.conf, <<"A">>) = List(<<Str(<<"1">>), Str(<<"3">>)>>)

\* C20: for a config built by any assignments, keys(), values() and items()
\* each run to their end without an exception and yield as many elements, and
\* the i-th key with the i-th value is the i-th item.
C20_ViewsAgree ==
  ini.op \in {"keys", "values", "items"}
    => /\ ini.out.exc = "none"
       /\ FlatINI_values(ini.conf).exc = "none"
       /\ Len(FlatINI_keys(ini.conf).v) = Len(FlatINI_items(ini.conf).v)
       /\ Len(FlatINI_values(ini.conf).v) = Len(FlatINI_items(ini.conf).v)
       /\ \A i \in 1..Len(FlatINI_items(ini.conf).v) :
             <<FlatINI_keys(ini.conf).v[i], FlatINI_values(ini.conf).v[i]>>
               = FlatINI_items(ini.conf).v[i]

(***************************************************************************)
(* Failures inside versions and of the manifest requests                   *)
(***************************************************************************)
ConfigFailures == {"ServerError", "ServerConfigurationError"}

\* this step is a next() of client c's generator that ends in a config failure
NextFails(c) ==
  /\ gen[c].state \in {"created", "suspended"}
  /\ gen'[c].state # gen[c].state \/ gen'[c].idx # gen[c].idx
  /\ last'.op = "next" /\ last'.client = c
  /\ last'.exc.type \in ConfigFailures

\* the rows of client c's region among the first n rows of the manifest
RegionRowsBefore(c, n) ==
  {i \in 1..n : i <= Len(PristineVersions) /\ PristineVersions[i][RegionCol].v = conn_region[c]}

\* no URL is requested twice in the log
NoRetry(log) ==
  \A i, j \in 1..Len(Gets(log)) : Gets(log)[i].url = Gets(log)[j].url => i = j

\* the log ends with the request that failed (a ServerError), or has asked the
\* CDN for nothing (no CDN host could be resolved)
EndsAtFailure(c, log, exc) ==
  IF exc.type = "ServerError"
  THEN /\ log # <<>>
       /\ log[Len(log)].ev = "GET"
       /\ log[Len(log)].url = exc.url
       /\ log[Len(log)].status = exc.status
       /\ exc.status # HTTP_OK
  ELSE \A i \in 1..Len(Gets(log)) : OnPatchServer(c, Gets(log)[i].url)

\* C15: when a next() of versions fails in get_config for the k-th row of the
\* region, the generator is finished with the rows before k yielded, enriched,
\* and row k not yielded; the consumer gets the error; the call has asked for
\* the configs of row k only, its last request is the one that failed, and no
\* URL was requested twice; a finished generator is never resumed.
C15_ConfigFailureAborts ==
  [][\A c \in Clients :
       /\ NextFails(c) =>
            /\ gen'[c].state = "failed"
            /\ gen'[c].yielded = gen[c].yielded
            /\ gen'[c].idx \in RegionRowsBefore(c, Len(PristineVersions))
            /\ Len(gen'[c].yielded) = Cardinality(RegionRowsBefore(c, gen'[c].idx - 1))
            /\ \A j \in 1..Len(gen'[c].yielded) :
                  /\ gen'[c].yielded[j][BuildConfigCol].t = "FlatINI"
                  /\ gen'[c].yielded[j][CDNConfigCol].t = "FlatINI"
            /\ last'.ret = None
            /\ Len(ConfigArgs(last'.log)) \in {1, 2}
            /\ PyEq(ConfigArgs(last'.log)[1],
                    PristineVersions[gen'[c].idx][BuildConfigCol])
            /\ Len(ConfigArgs(last'.log)) = 2 =>
                  PyEq(ConfigArgs(last'.log)[2],
                       PristineVersions[gen'[c].idx][CDNConfigCol])
            /\ NoRetry(last'.log)
            /\ EndsAtFailure(c, last'.log, last'.exc)
       /\ gen[c].state = "failed" => gen'[c] \in {gen[c], NewGen}
    ]_vars

\* the second row of the region has failed at its CDNConfig with a ServerError,
\* after the first row was yielded
C15_Witness ==
  /\ last.op = "next" /\ last.client = "c1"
  /\ last.exc.type = "ServerError"
  /\ gen["c1"].state = "failed"
  /\ Len(gen["c1"].yielded) = 1
  /\ Len(ConfigArgs(last.log)) = 2

\* the path of a request to the patch server
PathOf(c, url) == IF url = CdnsUrl(c) THEN "/cdns" ELSE "/versions"

\* C16: a manifest request answered 200 is followed by the write of its
\* bytes under ('cdns', digest of the bytes); a manifest request answered
\* anything else is followed by no write, and no table is memoized for its
\* path.
C16_ManifestPersistedOnSuccessOnly ==
  \A i \in 1..Len(last.log) :
    (last.log[i].ev = "GET" /\ OnPatchServer(last.client, last.log[i].url))
      => IF last.log[i].status = HTTP_OK
         THEN /\ i < Len(last.log)
              /\ last.log[i + 1].ev = "write"
              /\ last.log[i + 1].key = "cdns"
              /\ cache_contains(cache, "cdns", last.log[i + 1].name)
              /\ md5(cache_get(cache, "cdns", last.log[i + 1].name)) = last.log[i + 1].name
         ELSE /\ i = Len(last.log) \/ last.log[i + 1].ev # "write"
              /\ PathOf(last.client, last.log[i].url) \notin DOMAIN obj_cache[last.client]

(***************************************************************************)
(* The cache directory under one and under two processes                   *)
(***************************************************************************)
\* the (key, name) pairs of the cache under test
CachePairs == {<<key, n.name>> : key \in CacheKeys, n \in WriteNames}

\* process p has returned from a call of op
Returned(p, op) == proc[p].op = op /\ proc[p].pc = "idle"

\* C14: with one process on the directory, a write returns without an
\* exception and contains is then true and get returns the written bytes,
\* both in the state the write leaves and by the next contains and get of
\* the pair; a write of the bytes the entry already holds leaves what get
\* returns for the pair, and contains for every other pair, as they were.
C14_WriteVisibleIdempotent ==
  LET q == proc["p1"]
  IN /\ Returned("p1", "write") =>
          /\ q.exc = "none"
          /\ cache_contains(cache, q.key, q.name)
          /\ cache_get(cache, q.key, q.name) = q.data
     /\ (Returned("p1", "lookup") /\ q.wrote.key = q.key /\ q.wrote.name = q.name) =>
          /\ q.found
          /\ q.exc = "none"
          /\ q.ret = Str(q.wrote.data)
     /\ (/\ Returned("p1", "write")
         /\ cache_contains(q.before, q.key, q.name)
         /\ cache_get(q.before, q.key, q.name) = q.data) =>
          /\ cache_contains(cache, q.key, q.name)
          /\ cache_get(cache, q.key, q.name) = cache_get(q.before, q.key, q.name)
          /\ \A pair \in CachePairs \ {<<q.key, q.name>>} :
                cache_contains(cache, pair[1], pair[2])
                  = cache_contains(q.before, pair[1], pair[2])

\* the index of an archive has been written a second time with the same
\* bytes, next to another entry of the namespace
C14_Witness ==
  /\ Returned("p1", "write")
  /\ proc["p1"].name = IndexName
  /\ cache_contains(proc["p1"].before, "data", IndexName)
  /\ cache_get(proc["p1"].before, "data", IndexName) = proc["p1"].data
  /\ proc["p1"].key = "data"
  /\ cache_contains(cache, "data", H1)

\* C17: with two processes writing into the cache directory, every write
\* returns without an exception and its entry is then present, also when both
\* write into a namespace that does not exist yet.
C17_ConcurrentMakedirs ==
  \A p \in Procs :
    Returned(p, "write") =>
      /\ proc[p].exc = "none"
      /\ cache_contains(cache, proc[p].key, proc[p].name)

\* C18: a process whose contains has returned true for a pair gets from get
\* the complete bytes of the object of that name, whatever another process
\* is writing at the time.
C18_NoPartialEntry ==
  \A p \in Procs :
    (Returned(p, "lookup") /\ proc[p].found) =>
      /\ proc[p].exc = "none"
      /\ proc[p].ret = Str(DataOf(proc[p].name))
====
